---- MODULE Spec2Model ----
(***************************************************************************)
(* Data-quality validation engine (src/dq/dq_checks.py).                   *)
(*                                                                         *)
(* A rule record is a Python dict: the field `keys` is the set of keys the *)
(* dict holds, the other fields are the values of those keys (the value of *)
(* an absent key is never read).  `check_sql` is the set of the keywords   *)
(* that occur in the SQL text, which is all the code asks of it.           *)
(* A table is a DataFrame: `cols` is the set of its column labels, `rows`  *)
(* the sequence of its rows.  A string cell is a string, NA for a missing  *)
(* value; a numeric cell is <<v>>, or <<>> for NaN.                        *)
(***************************************************************************)
EXTENDS Integers, Sequences, FiniteSets, TLC

\* ---- bounds of the model ----
MaxRules == 3
MaxThreshold == 2

\* ---- constants of the program ----
MaxDetails == 10
MaxReported == 5
ErrorCount == -1
YieldLow == 0
YieldHigh == 100
DensityLow == 0
TempLow == -50
TempHigh == 500
\* pressure in thousandths of a torr: 0.001 torr and 1000 torr
PressureLow == 1
PressureHigh == 1000000

Layers == {"raw", "staging", "curated"}
Categories == {"REFERENTIAL_INTEGRITY", "RANGE", "COMPLETENESS", "UNIQUENESS", "TEMPORAL"}
Statuses == {"PASS", "WARNING", "FAIL", "ERROR"}
NA == "nan"
SequenceName == "Process Step Sequence Validation"

\* ---- sequences ----
Min(a, b) == IF a <= b THEN a ELSE b

\* seq[:n]
Take(seq, n) == SubSeq(seq, 1, Min(n, Len(seq)))

\* the column `c` of a sequence of rows
Col(rows, c) == [i \in 1..Len(rows) |-> rows[i][c]]

\* Series.unique(): the values in order of first appearance
RECURSIVE UniqueFrom(_, _)
UniqueFrom(seq, seen) ==
  IF seq = <<>> THEN <<>>
  ELSE IF Head(seq) \in seen THEN UniqueFrom(Tail(seq), seen)
  ELSE <<Head(seq)>> \o UniqueFrom(Tail(seq), seen \cup {Head(seq)})

Unique(seq) == UniqueFrom(seq, {})

\* the order of the strings used as identifiers (Python compares strings
\* lexicographically)
IdOrder == <<"", "B1", "B2", "E1", "E2", "W1", "W2">>
Rank(s) == CHOOSE i \in 1..Len(IdOrder) : IdOrder[i] = s

IsNa(v) == v = NA
IsNaN(x) == x = <<>>
\* comparisons of numeric cells: every comparison with NaN is False
NumLt(x, y) == ~IsNaN(x) /\ ~IsNaN(y) /\ x[1] < y[1]
NumGt(x, y) == NumLt(y, x)

\* a stable insertion sort of the positions 1..n; before[i][j] says that the
\* item at position i sorts strictly before the item at position j
RECURSIVE InsertSorted(_, _, _)
InsertSorted(i, seq, before) ==
  IF seq = <<>> THEN <<i>>
  ELSE IF before[i][Head(seq)] THEN <<i>> \o seq
  ELSE <<Head(seq)>> \o InsertSorted(i, Tail(seq), before)

RECURSIVE SortedPositions(_, _)
SortedPositions(n, before) ==
  IF n = 0 THEN <<>>
  ELSE InsertSorted(n, SortedPositions(n - 1, before), before)

\* ---- rule records and datasets ----
Has(rule, k) == k \in rule.keys

\* `name in data`
Loaded(data, name) == name \in DOMAIN data

HasCol(table, c) == c \in table.cols

\* ---- the outcome of the try block of _execute_pandas_check ----
Ok(v, d) == [err |-> FALSE, msg |-> "", violations |-> v, details |-> d]
Err(m) == [err |-> TRUE, msg |-> m, violations |-> 0, details |-> <<>>]
NoOp == Ok(0, <<>>)

\* the numeric columns; every other column holds strings
NumCols == {"process_step_id", "start_time", "defect_density", "temperature_c", "pressure_torr"}
CellIsNull(row, c) == IF c \in NumCols THEN IsNaN(row[c]) ELSE IsNa(row[c])

\* the identifiers of S in sorted order (groupby sorts its keys and drops NA)
SortedIds(S) == SelectSeq(IdOrder, LAMBDA s : s \in S)

\* REFERENTIAL_INTEGRITY: the rows of test_results that the left merge with
\* wafer_batches on batch_id marks left_only
ReferentialIntegrity(rule, data) ==
  IF ~Has(rule, "check_sql") THEN Err("'check_sql'")
  ELSE IF "wafer_tests" \in rule.check_sql /\ "wafer_batches" \in rule.check_sql
    THEN IF Loaded(data, "wafer_tests") /\ Loaded(data, "wafer_batches")
      THEN IF ~Loaded(data, "test_results") THEN Err("'test_results'")
        ELSE LET tests == data["test_results"]
                 batches == data["wafer_batches"]
             IN IF ~HasCol(tests, "batch_id") \/ ~HasCol(batches, "batch_id")
                  THEN Err("'batch_id'")
                  ELSE LET left_only == SelectSeq(tests.rows, LAMBDA r :
                                          ~\E i \in 1..Len(batches.rows) :
                                             batches.rows[i].batch_id = r.batch_id)
                       IN Ok(Len(left_only),
                             Take(Unique(Col(left_only, "batch_id")), MaxDetails))
      ELSE NoOp
    ELSE NoOp

\* RANGE yield_pct: yield of a batch = PASS rows / rows * 100, compared as
\* the exact fraction passed * 100 / total
\* the PASS rows of a batch divided by its FAIL rows, not by all its rows
RangeYieldOverFailed(data) ==
  IF ~Loaded(data, "test_results") THEN NoOp
  ELSE LET tests == data["test_results"] IN
    IF ~HasCol(tests, "batch_id") THEN Err("'batch_id'")
    ELSE IF ~HasCol(tests, "pass_fail") THEN Err("'pass_fail'")
    ELSE LET keys == {tests.rows[i].batch_id : i \in 1..Len(tests.rows)} \ {NA}
             failed(b) == Len(SelectSeq(tests.rows, LAMBDA r : r.batch_id = b /\ r.pass_fail = "FAIL"))
             passed(b) == Len(SelectSeq(tests.rows, LAMBDA r : r.batch_id = b /\ r.pass_fail = "PASS"))
             invalid_yield == SelectSeq(SortedIds(keys), LAMBDA b :
                                \/ passed(b) * 100 < YieldLow * failed(b)
                                \/ passed(b) * 100 > YieldHigh * failed(b))
         IN Ok(Len(invalid_yield), Take(invalid_yield, MaxDetails))

RangeYield(data) ==
  IF ~Loaded(data, "test_results") THEN NoOp
  ELSE LET tests == data["test_results"] IN
    IF ~HasCol(tests, "batch_id") THEN Err("'batch_id'")
    ELSE IF ~HasCol(tests, "pass_fail") THEN Err("'pass_fail'")
    ELSE LET keys == {tests.rows[i].batch_id : i \in 1..Len(tests.rows)} \ {NA}
             total(b) == Len(SelectSeq(tests.rows, LAMBDA r : r.batch_id = b))
             passed(b) == Len(SelectSeq(tests.rows, LAMBDA r : r.batch_id = b /\ r.pass_fail = "PASS"))
             invalid_yield == SelectSeq(SortedIds(keys), LAMBDA b :
                                \/ passed(b) * 100 < YieldLow * total(b)
                                \/ passed(b) * 100 > YieldHigh * total(b))
         IN Ok(Len(invalid_yield), Take(invalid_yield, MaxDetails))

RangeDefectDensity(data) ==
  IF ~Loaded(data, "test_results") THEN NoOp
  ELSE LET tests == data["test_results"] IN
    IF ~HasCol(tests, "defect_density") THEN Err("'defect_density'")
    ELSE LET invalid == SelectSeq(tests.rows, LAMBDA r : NumLt(r.defect_density, <<DensityLow>>))
         IN IF ~HasCol(tests, "wafer_id") THEN Err("'wafer_id'")
            ELSE Ok(Len(invalid), Take(Col(invalid, "wafer_id"), MaxDetails))

\* the bounds themselves taken as out of range
RangeTemperatureInclusive(data) ==
  IF ~Loaded(data, "equipment_logs") THEN NoOp
  ELSE LET logs == data["equipment_logs"] IN
    IF ~HasCol(logs, "temperature_c") THEN Err("'temperature_c'")
    ELSE LET invalid == SelectSeq(logs.rows, LAMBDA r :
                          /\ ~IsNaN(r.temperature_c)
                          /\ \/ r.temperature_c[1] <= TempLow
                             \/ r.temperature_c[1] >= TempHigh)
         IN IF ~HasCol(logs, "equipment_id") THEN Err("'equipment_id'")
            ELSE Ok(Len(invalid), Take(Unique(Col(invalid, "equipment_id")), MaxDetails))

RangeTemperature(data) ==
  IF ~Loaded(data, "equipment_logs") THEN NoOp
  ELSE LET logs == data["equipment_logs"] IN
    IF ~HasCol(logs, "temperature_c") THEN Err("'temperature_c'")
    ELSE LET invalid == SelectSeq(logs.rows, LAMBDA r :
                          \/ NumLt(r.temperature_c, <<TempLow>>)
                          \/ NumGt(r.temperature_c, <<TempHigh>>))
         IN IF ~HasCol(logs, "equipment_id") THEN Err("'equipment_id'")
            ELSE Ok(Len(invalid), Take(Unique(Col(invalid, "equipment_id")), MaxDetails))

RangePressure(data) ==
  IF ~Loaded(data, "equipment_logs") THEN NoOp
  ELSE LET logs == data["equipment_logs"] IN
    IF ~HasCol(logs, "pressure_torr") THEN Err("'pressure_torr'")
    ELSE LET invalid == SelectSeq(logs.rows, LAMBDA r :
                          \/ NumLt(r.pressure_torr, <<PressureLow>>)
                          \/ NumGt(r.pressure_torr, <<PressureHigh>>))
         IN Ok(Len(invalid), <<>>)

\* a final else in place of the elif on pressure
RangeElsePressure(rule, data) ==
  IF ~Has(rule, "check_sql") THEN Err("'check_sql'")
  ELSE IF "yield_pct" \in rule.check_sql THEN RangeYield(data)
  ELSE IF "defect_density" \in rule.check_sql THEN RangeDefectDensity(data)
  ELSE IF "temperature" \in rule.check_sql THEN RangeTemperature(data)
  ELSE RangePressure(data)

Range(rule, data) ==
  IF ~Has(rule, "check_sql") THEN Err("'check_sql'")
  ELSE IF "yield_pct" \in rule.check_sql THEN RangeYield(data)
  ELSE IF "defect_density" \in rule.check_sql THEN RangeDefectDensity(data)
  ELSE IF "temperature" \in rule.check_sql THEN RangeTemperature(data)
  ELSE IF "pressure" \in rule.check_sql THEN RangePressure(data)
  ELSE NoOp

\* isna().sum() + (column == '').sum()
CompletenessId(data, table, c) ==
  IF ~Loaded(data, table) THEN NoOp
  ELSE LET t == data[table] IN
    IF ~HasCol(t, c) THEN Err("'" \o c \o "'")
    ELSE Ok(Len(SelectSeq(t.rows, LAMBDA r : IsNa(r[c])))
            + Len(SelectSeq(t.rows, LAMBDA r : r[c] = "")), <<>>)

\* isna().sum(), plus the rows whose value is not in ['PASS', 'FAIL']
CompletenessPassFail(data) ==
  IF ~Loaded(data, "test_results") THEN NoOp
  ELSE LET tests == data["test_results"] IN
    IF ~HasCol(tests, "pass_fail") THEN Err("'pass_fail'")
    ELSE Ok(Len(SelectSeq(tests.rows, LAMBDA r : IsNa(r.pass_fail)))
            + Len(SelectSeq(tests.rows, LAMBDA r : r.pass_fail \notin {"PASS", "FAIL"})), <<>>)

Completeness(rule, data) ==
  IF ~Has(rule, "check_sql") THEN Err("'check_sql'")
  ELSE IF "wafer_id" \in rule.check_sql THEN CompletenessId(data, "test_results", "wafer_id")
  ELSE IF "equipment_id" \in rule.check_sql THEN CompletenessId(data, "equipment_logs", "equipment_id")
  ELSE IF "pass_fail" \in rule.check_sql THEN CompletenessPassFail(data)
  ELSE NoOp

\* UNIQUENESS: the (batch_id, wafer_id) groups of more than one row, in the
\* sorted order of the group keys
Uniqueness(rule, data) ==
  IF ~Has(rule, "check_sql") THEN Err("'check_sql'")
  ELSE IF "wafer_id" \in rule.check_sql /\ "batch_id" \in rule.check_sql
    THEN IF ~Loaded(data, "test_results") THEN NoOp
      ELSE LET tests == data["test_results"] IN
        IF ~HasCol(tests, "batch_id") THEN Err("'batch_id'")
        ELSE IF ~HasCol(tests, "wafer_id") THEN Err("'wafer_id'")
        ELSE LET n == Len(IdOrder)
                 pairs == [k \in 1..(n * n) |->
                             <<IdOrder[((k - 1) \div n) + 1], IdOrder[((k - 1) % n) + 1]>>]
                 size(p) == Len(SelectSeq(tests.rows, LAMBDA r : r.batch_id = p[1] /\ r.wafer_id = p[2]))
                 duplicates == SelectSeq(pairs, LAMBDA p : size(p) > 1)
             IN Ok(Len(duplicates),
                   Take([k \in 1..Len(duplicates) |-> duplicates[k][2]], MaxDetails))
    ELSE NoOp

\* sort_values(['batch_id', 'process_step_id']): NA sorts last
KeyBefore(r1, r2) ==
  LET b1 == r1.batch_id
      b2 == r2.batch_id
      s1 == r1.process_step_id
      s2 == r2.process_step_id
  IN IF b1 # b2
       THEN ~IsNa(b1) /\ (IsNa(b2) \/ Rank(b1) < Rank(b2))
       ELSE ~IsNaN(s1) /\ (IsNaN(s2) \/ s1[1] < s2[1])

\* TEMPORAL: rows whose start_time is earlier than the start_time of the
\* previous row of the same batch; dropna() then drops the rows with a
\* missing value in any column
Temporal(rule, data) ==
  IF ~Loaded(data, "test_results") THEN NoOp
  ELSE IF ~Has(rule, "name") THEN Err("'name'")
  ELSE IF rule.name # SequenceName THEN NoOp
  ELSE LET tests == data["test_results"] IN
    IF ~HasCol(tests, "batch_id") THEN Err("'batch_id'")
    ELSE IF ~HasCol(tests, "process_step_id") THEN Err("'process_step_id'")
    ELSE IF ~HasCol(tests, "start_time") THEN Err("'start_time'")
    ELSE LET n == Len(tests.rows)
             before == [i \in 1..n |-> [j \in 1..n |-> KeyBefore(tests.rows[i], tests.rows[j])]]
             pos == SortedPositions(n, before)
             tests_sorted == [k \in 1..n |-> tests.rows[pos[k]]]
             prev_time(k) == IF k > 1 /\ ~IsNa(tests_sorted[k].batch_id)
                                /\ tests_sorted[k - 1].batch_id = tests_sorted[k].batch_id
                             THEN tests_sorted[k - 1].start_time
                             ELSE <<>>
             bad == {k \in 1..n : /\ NumLt(tests_sorted[k].start_time, prev_time(k))
                                   /\ ~\E c \in tests.cols : CellIsNull(tests_sorted[k], c)}
             invalid == SelectSeq([k \in 1..n |-> IF k \in bad THEN <<tests_sorted[k]>> ELSE <<>>],
                                  LAMBDA x : x # <<>>)
         IN Ok(Len(invalid),
               Take(Unique([k \in 1..Len(invalid) |-> invalid[k][1].batch_id]), MaxDetails))

\* the try block of _execute_pandas_check
TryBlock(rule, data) ==
  IF ~Has(rule, "category") THEN Err("'category'")
  ELSE IF rule.category = "REFERENTIAL_INTEGRITY" THEN ReferentialIntegrity(rule, data)
  ELSE IF rule.category = "RANGE" THEN Range(rule, data)
  ELSE IF rule.category = "COMPLETENESS" THEN Completeness(rule, data)
  ELSE IF rule.category = "UNIQUENESS" THEN Uniqueness(rule, data)
  ELSE IF rule.category = "TEMPORAL" THEN Temporal(rule, data)
  ELSE NoOp

\* the except clause of _execute_pandas_check: an exception of the try block
\* becomes (-1, [message]); the handler itself reads rule['rule_id']
Handler(rule, t) ==
  IF ~t.err
    THEN [raised |-> FALSE, exc |-> "", violations |-> t.violations, details |-> t.details]
  ELSE IF Has(rule, "rule_id")
    THEN [raised |-> FALSE, exc |-> "", violations |-> ErrorCount,
          details |-> <<"Error: " \o t.msg>>]
  ELSE [raised |-> TRUE, exc |-> "KeyError: 'rule_id'", violations |-> ErrorCount,
        details |-> <<>>]

ExecutePandasCheck(rule, data) == Handler(rule, TryBlock(rule, data))

\* the threshold compared before the error count is looked at
StatusThresholdFirst(rule, violations, threshold) ==
  IF violations <= threshold THEN "PASS"
  ELSE IF violations = ErrorCount THEN "ERROR"
  ELSE IF rule.severity \in {"CRITICAL", "HIGH"} THEN "FAIL"
  ELSE "WARNING"

\* < in place of <=
StatusStrict(rule, violations, threshold) ==
  IF violations = ErrorCount THEN "ERROR"
  ELSE IF violations < threshold THEN "PASS"
  ELSE IF rule.severity \in {"CRITICAL", "HIGH"} THEN "FAIL"
  ELSE "WARNING"

\* the HIGH branch left out
StatusHighWarns(rule, violations, threshold) ==
  IF violations = ErrorCount THEN "ERROR"
  ELSE IF violations <= threshold THEN "PASS"
  ELSE IF rule.severity = "CRITICAL" THEN "FAIL"
  ELSE "WARNING"

Status(rule, violations, threshold) ==
  IF violations = ErrorCount THEN "ERROR"
  ELSE IF violations <= threshold THEN "PASS"
  ELSE IF rule.severity = "CRITICAL" THEN "FAIL"
  ELSE IF rule.severity = "HIGH" THEN "FAIL"
  ELSE IF rule.severity = "MEDIUM" THEN "WARNING"
  ELSE "WARNING"

Raise(exc) == [raised |-> TRUE, exc |-> exc]

\* check_rule after the call of _execute_pandas_check has returned `res`: the
\* verdict of the rule, or the KeyError of a key the rule record lacks
Result(rule, res, threshold) ==
  IF res.raised THEN Raise(res.exc)
  ELSE IF res.violations # ErrorCount /\ res.violations > threshold /\ ~Has(rule, "severity")
    THEN Raise("KeyError: 'severity'")
  ELSE IF ~Has(rule, "rule_id") THEN Raise("KeyError: 'rule_id'")
  ELSE IF ~Has(rule, "name") THEN Raise("KeyError: 'name'")
  ELSE IF ~Has(rule, "category") THEN Raise("KeyError: 'category'")
  ELSE IF ~Has(rule, "severity") THEN Raise("KeyError: 'severity'")
  ELSE [raised |-> FALSE,
        exc |-> "",
        verdict |-> [rule_id |-> rule.rule_id,
                     rule_name |-> rule.name,
                     category |-> rule.category,
                     severity |-> rule.severity,
                     status |-> Status(rule, res.violations, threshold),
                     violations |-> res.violations,
                     threshold |-> threshold,
                     impact |-> IF Has(rule, "impact") THEN rule.impact ELSE "N/A",
                     details |-> Take(res.details, MaxReported)]]

\* check_rule: the verdict of one rule, or the exception that leaves it
CheckRule(rule, data) ==
  Result(rule, ExecutePandasCheck(rule, data),
         IF Has(rule, "threshold") THEN rule.threshold ELSE 0)

\* the default layer taken for every layer
ApplicableByDefault(rule, layer) ==
  ~Has(rule, "layer") \/ layer \in rule.layer

\* layer in rule.get('layer', 'staging'): the value is the list of the
\* layers of the rule; none of the three layer names occurs inside another,
\* so the default string 'staging' contains exactly the layer staging
Applicable(rule, layer) ==
  layer \in (IF Has(rule, "layer") THEN rule.layer ELSE {"staging"})

\* the loop body of run_checks once the check of the rule has given `r`
Checked(r) ==
  IF r.raised
    THEN [raised |-> TRUE, exc |-> r.exc, ran |-> 1, verdicts |-> <<>>]
    ELSE [raised |-> FALSE, exc |-> "", ran |-> 1, verdicts |-> <<r.verdict>>]

\* one pass of the loop body of run_checks: the rule is skipped, or its
\* check runs and gives a verdict, or a KeyError leaves the loop; `ran`
\* counts the call of _execute_pandas_check
LoopBody(rule, layer, data) ==
  IF ~Applicable(rule, layer)
    THEN [raised |-> FALSE, exc |-> "", ran |-> 0, verdicts |-> <<>>]
  ELSE IF ~Has(rule, "rule_id")
    THEN [raised |-> TRUE, exc |-> "KeyError: 'rule_id'", ran |-> 0, verdicts |-> <<>>]
  ELSE IF ~Has(rule, "name")
    THEN [raised |-> TRUE, exc |-> "KeyError: 'name'", ran |-> 0, verdicts |-> <<>>]
  ELSE Checked(CheckRule(rule, data))

\* the loop of run_checks from rule i on, `acc` being the list `results`
\* and bodies[i] the outcome of the loop body for rule i
RECURSIVE RunLoop(_, _, _, _)
RunLoop(bodies, i, acc, executed) ==
  IF i > Len(bodies)
    THEN [raised |-> FALSE, exc |-> "", results |-> acc, executed |-> executed]
  ELSE IF bodies[i].raised
    THEN [raised |-> TRUE, exc |-> bodies[i].exc, results |-> acc,
          executed |-> executed + bodies[i].ran]
  ELSE RunLoop(bodies, i + 1, acc \o bodies[i].verdicts, executed + bodies[i].ran)

\* ---- the rule records and the datasets the model draws from ----
MkRule(missing, id, name, category, severity, threshold, layer, sql) ==
  [keys |-> {"rule_id", "name", "category", "severity", "threshold", "layer",
             "check_sql", "impact"} \ missing,
   rule_id |-> id, name |-> name, category |-> category, severity |-> severity,
   threshold |-> threshold, layer |-> layer, check_sql |-> sql,
   impact |-> "Yield loss"]

TRow(w, b, s, t, p, d) ==
  [wafer_id |-> w, batch_id |-> b, process_step_id |-> s, start_time |-> t,
   pass_fail |-> p, defect_density |-> d]
LRow(e, t, p) == [equipment_id |-> e, temperature_c |-> t, pressure_torr |-> p]
BRow(b) == [batch_id |-> b]

TestCols == {"wafer_id", "batch_id", "process_step_id", "start_time", "pass_fail",
             "defect_density"}
LogCols == {"equipment_id", "temperature_c", "pressure_torr"}

TestsClean ==
  [cols |-> TestCols,
   rows |-> <<TRow("W1", "B1", <<1>>, <<10>>, "PASS", <<1>>),
              TRow("W2", "B1", <<2>>, <<20>>, "FAIL", <<0>>)>>]
TestsDirty ==
  [cols |-> TestCols,
   rows |-> <<TRow("W1", "B2", <<2>>, <<20>>, "MAYBE", <<-1>>),
              TRow("W1", "B2", <<1>>, <<30>>, NA, <<-2>>),
              TRow(NA, "B1", <<1>>, <<25>>, "PASS", <<>>),
              TRow("W2", "B1", <<2>>, <<15>>, "FAIL", <<-3>>)>>]
Batches == [cols |-> {"batch_id"}, rows |-> <<BRow("B1")>>]
LogsClean ==
  [cols |-> LogCols,
   rows |-> <<LRow("E1", <<100>>, <<500000>>), LRow("E2", <<-50>>, <<1>>)>>]
LogsDirty ==
  [cols |-> LogCols,
   rows |-> <<LRow("E1", <<501>>, <<0>>), LRow("E1", <<-51>>, <<1000001>>),
              LRow(NA, <<600>>, <<>>)>>]
\* an equipment_logs file without the sensor columns
LogsNoSensors == [cols |-> {"equipment_id"}, rows |-> <<LRow("E1", <<>>, <<>>)>>]

\* the dataset mapping with the given table, if any, under each name
\* (a set of tables is empty or holds the one table)
DataOf(tests, batches, logs, wafer_tests) ==
  LET opt == [n \in {"test_results", "wafer_batches", "equipment_logs", "wafer_tests"} |->
                IF n = "test_results" THEN tests
                ELSE IF n = "wafer_batches" THEN batches
                ELSE IF n = "equipment_logs" THEN logs
                ELSE wafer_tests]
  IN [n \in {m \in DOMAIN opt : opt[m] # {}} |-> CHOOSE t \in opt[n] : TRUE]

NoData == DataOf({}, {}, {}, {})

ProbeData ==
  {DataOf(t, b, l, w) : t \in {{}, {TestsClean}, {TestsDirty}},
                        b \in {{}, {Batches}},
                        l \in {{}, {LogsClean}, {LogsDirty}, {LogsNoSensors}},
                        w \in {{}, {Batches}}} \ {NoData}

Severities == {"CRITICAL", "HIGH", "MEDIUM", "LOW", "INFO"}

\* <<category, keywords of check_sql, name>>
Descriptors ==
  {<<"REFERENTIAL_INTEGRITY", {"wafer_tests", "wafer_batches"}, "Batch Reference">>,
   <<"REFERENTIAL_INTEGRITY", {"wafer_tests"}, "Batch Reference">>,
   <<"REFERENTIAL_INTEGRITY", {}, "Batch Reference">>,
   <<"RANGE", {"yield_pct"}, "Yield Bounds">>,
   <<"RANGE", {"defect_density"}, "Defect Density">>,
   <<"RANGE", {"temperature"}, "Temperature Bounds">>,
   <<"RANGE", {"pressure"}, "Pressure Bounds">>,
   <<"RANGE", {"yield_pct", "temperature"}, "Yield Bounds">>,
   <<"RANGE", {"batch_id"}, "Batch Size">>,
   <<"COMPLETENESS", {"wafer_id"}, "Wafer Id Present">>,
   <<"COMPLETENESS", {"equipment_id"}, "Equipment Id Present">>,
   <<"COMPLETENESS", {"pass_fail"}, "Pass Fail Present">>,
   <<"COMPLETENESS", {"wafer_id", "pass_fail"}, "Wafer Id Present">>,
   <<"COMPLETENESS", {"temperature"}, "Temperature Present">>,
   <<"UNIQUENESS", {"wafer_id", "batch_id"}, "Wafer Unique">>,
   <<"UNIQUENESS", {"wafer_id"}, "Wafer Unique">>,
   <<"TEMPORAL", {"start_time"}, SequenceName>>,
   <<"TEMPORAL", {"start_time"}, "Maintenance Window">>,
   <<"FRESHNESS", {"temperature"}, "Sensor Freshness">>}

ProbeRules ==
  {MkRule(missing, "DQ001", d[3], d[1], sev, thr, {"raw"}, d[2]) :
     missing \in {{}} \cup {{k} : k \in {"rule_id", "name", "category", "severity",
                                          "threshold", "layer", "check_sql", "impact"}},
     d \in Descriptors, sev \in Severities, thr \in 0..MaxThreshold}

\* the rules the catalogs are made of
CatalogRules ==
  {MkRule({"threshold"}, "DQ001", "Batch Reference", "REFERENTIAL_INTEGRITY", "CRITICAL",
          0, {"raw"}, {"wafer_tests", "wafer_batches"}),
   MkRule({}, "DQ002", "Temperature Bounds", "RANGE", "MEDIUM",
          1, {"raw", "staging"}, {"temperature"}),
   MkRule({"layer"}, "DQ003", SequenceName, "TEMPORAL", "HIGH",
          0, {}, {"start_time"}),
   MkRule({"check_sql"}, "DQ004", "Wafer Id Present", "COMPLETENESS", "LOW",
          0, {"raw", "curated"}, {}),
   MkRule({"severity"}, "DQ005", "Pressure Bounds", "RANGE", "HIGH",
          0, {"raw"}, {"pressure"}),
   MkRule({"name"}, "DQ006", "", "UNIQUENESS", "HIGH",
          0, {"curated"}, {"wafer_id", "batch_id"})}

\* the catalogs: up to MaxRules rules, no rule twice
Catalogs ==
  UNION {{c \in [1..n -> CatalogRules] : \A i, j \in 1..n : c[i] = c[j] => i = j} :
           n \in 0..MaxRules}

\* the contents a layer directory can have when a run loads it
RunData ==
  {NoData,
   DataOf({TestsDirty}, {Batches}, {LogsDirty}, {}),
   DataOf({TestsClean}, {Batches}, {LogsClean}, {}),
   DataOf({}, {Batches}, {LogsNoSensors}, {Batches})}

\* ---- the state ----
VARIABLES
  rules,    \* self.rules: the catalog, loaded by __init__
  results,  \* self.results: layer -> verdicts, for the layers that have an entry
  last,     \* the last call of run_checks and how it ended
  probe     \* a call of check_rule on one rule: its arguments and its outcome

vars == <<rules, results, last, probe>>

NoCall == [kind |-> "none"]
NoProbe == [kind |-> "none"]
EmptyResults == [l \in {} |-> <<>>]

\* self.results[layer] of the defaultdict(list)
Held(layer) == IF layer \in DOMAIN results THEN results[layer] ELSE <<>>

Init ==
  /\ rules \in Catalogs
  /\ results = EmptyResults
  /\ last = NoCall
  /\ probe = NoProbe

\* self.results = {layer: results}: the other layers are dropped
StoreOnly(held, layer, verdicts) == [l \in {layer} |-> verdicts]

\* self.results[layer] = results
Store(held, layer, verdicts) ==
  [l \in DOMAIN held \cup {layer} |-> IF l = layer THEN verdicts ELSE held[l]]

\* how a run that loaded tables ends: the KeyError that left the loop, or
\* the list `results`
Returned(layer, data, out) ==
  [kind |-> "call", layer |-> layer, data |-> data,
   ret |-> IF out.raised THEN "raise" ELSE "list",
   exc |-> out.exc, verdicts |-> out.results, executed |-> out.executed]

\* run_checks(layer), the layer directory holding `data`
RunChecks(layer, data) ==
  /\ last' = IF DOMAIN data = {}
               THEN [kind |-> "call", layer |-> layer, data |-> data, ret |-> "None",
                     exc |-> "", verdicts |-> <<>>, executed |-> 0]
               ELSE Returned(layer, data,
                             RunLoop([i \in 1..Len(rules) |-> LoopBody(rules[i], layer, data)],
                                     1, <<>>, 0))
  /\ results' = IF last'.ret = "list"
                  THEN Store(results, layer, last'.verdicts)
                  ELSE results
  /\ UNCHANGED <<rules, probe>>

Next == \E layer \in Layers, data \in RunData : RunChecks(layer, data)

Spec == Init /\ [][Next]_vars

\* ---- check_rule as a function of one rule and one dataset ----
InitRule ==
  /\ rules = <<>>
  /\ results = EmptyResults
  /\ last = NoCall
  /\ \E rule \in ProbeRules, data \in ProbeData :
       probe = [kind |-> "pending", rule |-> rule, data |-> data]

CheckRuleCall ==
  /\ probe.kind = "pending"
  /\ probe' = [kind |-> "done", rule |-> probe.rule, data |-> probe.data,
               out |-> CheckRule(probe.rule, probe.data)]
  /\ UNCHANGED <<rules, results, last>>

NextRule == CheckRuleCall

SpecRule == InitRule /\ [][NextRule]_vars

\* ---- check_rule on the tables of one check, row by row ----
MaxRows == 3
MaxCells == 5
MaxViolators == 12

SeqsUpTo(S, n) == UNION {[1..k -> S] : k \in 0..n}

TestTable(rows) == [cols |-> TestCols, rows |-> rows]
LogTable(rows) == [cols |-> LogCols, rows |-> rows]
BatchTable(rows) == [cols |-> {"batch_id"}, rows |-> rows]

CheckOf(id, name, category, sql) ==
  MkRule({}, id, name, category, "HIGH", 0, {"raw"}, sql)

\* COMPLETENESS on pass_fail: every test_results table of up to MaxCells
\* rows, by the pass_fail cell of each row
PassFailCases ==
  {<<CheckOf("DQ011", "Pass Fail Present", "COMPLETENESS", {"pass_fail"}),
     DataOf({TestTable([i \in 1..Len(cells) |->
                          TRow("W1", "B1", <<1>>, <<1>>, cells[i], <<0>>)])}, {}, {}, {})>> :
     cells \in SeqsUpTo({"PASS", "FAIL", "MAYBE", NA}, MaxCells)}

\* the i-th identifier with the given prefix
Id(prefix, i) == prefix \o ToString(i)

\* RANGE on defect_density: `clean` rows within the bound, then n rows below
\* it whose wafer ids run through k distinct values
DensityCases ==
  {<<CheckOf("DQ012", "Defect Density", "RANGE", {"defect_density"}),
     DataOf({TestTable([i \in 1..clean |-> TRow("W1", "B1", <<1>>, <<1>>, "PASS", <<0>>)]
                       \o [i \in 1..n |->
                             TRow(Id("W", ((i - 1) % k) + 1), "B1", <<1>>, <<1>>, "PASS", <<-1>>)])},
            {}, {}, {})>> :
     clean \in 0..1, n \in 0..MaxViolators, k \in 1..MaxViolators}

\* RANGE on temperature: n rows above the bound whose equipment ids run
\* through k distinct values
HotCases ==
  {<<CheckOf("DQ012", "Temperature Bounds", "RANGE", {"temperature"}),
     DataOf({}, {},
            {LogTable([i \in 1..n |-> LRow(Id("E", ((i - 1) % k) + 1), <<TempHigh + 1>>, <<1>>)])},
            {})>> :
     n \in 0..MaxViolators, k \in 1..MaxViolators}

\* REFERENTIAL_INTEGRITY: every test_results table of up to MaxRows rows by
\* the batch_id of each row, against a wafer_batches table, the layer
\* directory holding a file wafer_tests.csv or not
BatchTables ==
  {BatchTable([i \in 1..Len(ids) |-> BRow(ids[i])]) :
     ids \in {<<>>, <<"B1">>, <<"B2", "B1">>, <<"B1", "B1">>, <<"B2", NA>>}}

RefCases ==
  {<<CheckOf("DQ013", "Batch Reference", "REFERENTIAL_INTEGRITY", {"wafer_tests", "wafer_batches"}),
     DataOf({TestTable([i \in 1..Len(ids) |->
                          TRow("W1", ids[i], <<1>>, <<1>>, "PASS", <<0>>)])},
            {batches}, {}, wafer_tests)>> :
     ids \in SeqsUpTo({"B1", "B2", NA}, MaxRows),
     batches \in BatchTables,
     wafer_tests \in {{}, {TestTable(<<>>)}}}

\* TEMPORAL: every test_results table of up to MaxRows rows drawn from
\* StepRows
StepRows ==
  {TRow("W1", b, <<s>>, <<t>>, "PASS", <<0>>) : b \in {"B1", "B2"}, s \in 1..2, t \in 1..2}
    \cup {TRow("W1", "B1", <<2>>, <<1>>, NA, <<0>>),
          TRow("W1", "B1", <<1>>, <<2>>, NA, <<0>>),
          TRow("W1", "B1", <<2>>, <<>>, "PASS", <<0>>),
          TRow("W1", NA, <<2>>, <<1>>, "PASS", <<0>>)}

StepCases ==
  {<<CheckOf("DQ014", SequenceName, "TEMPORAL", {"start_time"}),
     DataOf({TestTable(rows)}, {}, {}, {})>> :
     rows \in SeqsUpTo(StepRows, MaxRows)}

\* RANGE on temperature: every equipment_logs table of up to MaxRows rows
\* drawn from SensorRows, whose temperatures lie at, next to and between the
\* bounds, on the grid of whole degrees
SensorRows ==
  {LRow("E1", t, <<1>>) : t \in {<<TempLow - 1>>, <<TempLow>>, <<0>>, <<TempHigh>>,
                                 <<TempHigh + 1>>, <<>>}}
    \cup {LRow("E2", <<TempLow - 1>>, <<1>>), LRow("E2", <<TempHigh>>, <<1>>)}

SensorCases ==
  {<<CheckOf("DQ015", "Temperature Bounds", "RANGE", {"temperature"}),
     DataOf({}, {}, {LogTable(rows)}, {})>> :
     rows \in SeqsUpTo(SensorRows, MaxRows)}

\* RANGE on yield_pct: every test_results table of up to MaxRows rows by the
\* batch_id and the pass_fail of each row, for every threshold
YieldRows ==
  {TRow("W1", b, <<1>>, <<1>>, p, <<0>>) : b \in {"B1", "B2", NA}, p \in {"PASS", "FAIL", NA}}

YieldCases ==
  {<<MkRule({}, "DQ016", "Yield Bounds", "RANGE", "CRITICAL", thr, {"raw"}, {"yield_pct"}),
     DataOf({TestTable(rows)}, {}, {}, {})>> :
     rows \in SeqsUpTo(YieldRows, MaxRows), thr \in 0..MaxThreshold}

TableCases ==
  PassFailCases \cup DensityCases \cup HotCases \cup RefCases \cup StepCases \cup SensorCases
    \cup YieldCases

InitTable ==
  /\ rules = <<>>
  /\ results = EmptyResults
  /\ last = NoCall
  /\ \E c \in TableCases : probe = [kind |-> "pending", rule |-> c[1], data |-> c[2]]

SpecTable == InitTable /\ [][NextRule]_vars

\* ---- the claims ----
RequiredKeys == {"rule_id", "name", "category", "severity"}
Malformed(rule) == ~(RequiredKeys \subseteq rule.keys)
Called == last.kind = "call"
HasData == Called /\ DOMAIN last.data # {}
\* the rules of the catalog whose layers include `layer`, in catalog order
RulesOfLayer(layer) ==
  SelectSeq(rules, LAMBDA r : layer \in (IF "layer" \in r.keys THEN r.layer ELSE {"staging"}))

\* C1: a run on a non-empty dataset raises nothing and returns one verdict
\* for each applicable rule, and the verdict of a rule is ERROR exactly when
\* the check of that rule failed.
C1_FailureIsolated ==
  HasData =>
    LET app == RulesOfLayer(last.layer) IN
    /\ last.ret = "list"
    /\ Len(last.verdicts) = Len(app)
    /\ \A k \in 1..Len(app) :
         (last.verdicts[k].status = "ERROR") <=> TryBlock(app[k], last.data).err

Done == probe.kind = "done"
Judged == Done /\ ~probe.out.raised
Verdict == probe.out.verdict

\* C2: a violation count of -1 gives the status ERROR, whatever the
\* threshold and the severity.
C2_ErrorSentinel ==
  (Judged /\ Verdict.violations = -1) => Verdict.status = "ERROR"

C2_Witness ==
  /\ Judged
  /\ Verdict.violations = -1
  /\ Verdict.threshold = MaxThreshold
  /\ Verdict.severity = "CRITICAL"
  /\ Verdict.status = "ERROR"

\* C3: as claimed, a violation count at or below the threshold gives the
\* status PASS for every outcome of the check.
C3_AtOrBelowThresholdPasses ==
  (Judged /\ Verdict.violations <= Verdict.threshold) => Verdict.status = "PASS"

\* C3, amended: a violation count other than the error count -1 that is at
\* or below the threshold gives the status PASS.
C3_CountAtOrBelowThresholdPasses ==
  (Judged /\ Verdict.violations # -1 /\ Verdict.violations <= Verdict.threshold)
    => Verdict.status = "PASS"

C3_Witness ==
  /\ Judged
  /\ Verdict.violations = Verdict.threshold
  /\ Verdict.threshold > 0
  /\ Verdict.severity = "CRITICAL"
  /\ Verdict.status = "PASS"

\* C4: above the threshold the status is FAIL exactly for the severities
\* CRITICAL and HIGH and WARNING for every other severity; every status is
\* one of PASS, WARNING, FAIL, ERROR.
C4_SeverityDecides ==
  Judged =>
    /\ Verdict.status \in {"PASS", "WARNING", "FAIL", "ERROR"}
    /\ Verdict.violations > Verdict.threshold =>
         /\ (Verdict.status = "FAIL") <=> (probe.rule.severity \in {"CRITICAL", "HIGH"})
         /\ probe.rule.severity \notin {"CRITICAL", "HIGH"} => Verdict.status = "WARNING"

C4_Witness ==
  /\ Judged
  /\ Verdict.violations > Verdict.threshold
  /\ probe.rule.severity = "INFO"
  /\ Verdict.status = "WARNING"

\* C5: with a rule record that lacks id, name, category or severity in the
\* catalog, a run on a loaded dataset ends with an error before any check
\* has executed and no verdict is produced for any rule.
C5_MalformedCatalogAborts ==
  (HasData /\ \E i \in 1..Len(rules) : Malformed(rules[i])) =>
    /\ last.ret = "raise"
    /\ last.executed = 0
    /\ last.verdicts = <<>>
    /\ Held(last.layer) = <<>>

\* C6: a run for a layer without tables raises nothing, executes no check,
\* returns the no-data outcome, and leaves zero verdicts held for the layer.
C6_NoDataRun ==
  (Called /\ DOMAIN last.data = {}) =>
    /\ last.ret = "None"
    /\ last.executed = 0
    /\ Held(last.layer) = <<>>

\* C7: the verdicts a run returns and stores are those of the rules whose
\* layers include the requested layer, one for each, in catalog order.
C7_VerdictsFollowCatalog ==
  (Called /\ last.ret = "list") =>
    LET app == RulesOfLayer(last.layer) IN
    /\ Held(last.layer) = last.verdicts
    /\ Len(last.verdicts) = Len(app)
    /\ \A k \in 1..Len(app) : last.verdicts[k].rule_id = app[k].rule_id

C7_Witness ==
  /\ Called
  /\ last.ret = "list"
  /\ Len(last.verdicts) = 2
  /\ Len(rules) = 3
  /\ last.verdicts[1].rule_id = rules[1].rule_id
  /\ last.verdicts[2].rule_id = rules[3].rule_id

\* the tables the check of a rule reads, for the recognised checks
RequiredTables(rule) ==
  LET sql == rule.check_sql IN
  IF rule.category = "REFERENTIAL_INTEGRITY"
    THEN IF {"wafer_tests", "wafer_batches"} \subseteq sql
           THEN {"test_results", "wafer_batches"} ELSE {}
  ELSE IF rule.category = "RANGE"
    THEN IF "yield_pct" \in sql \/ "defect_density" \in sql THEN {"test_results"}
         ELSE IF "temperature" \in sql \/ "pressure" \in sql THEN {"equipment_logs"}
         ELSE {}
  ELSE IF rule.category = "COMPLETENESS"
    THEN IF "wafer_id" \in sql THEN {"test_results"}
         ELSE IF "equipment_id" \in sql THEN {"equipment_logs"}
         ELSE IF "pass_fail" \in sql THEN {"test_results"}
         ELSE {}
  ELSE IF rule.category = "UNIQUENESS"
    THEN IF {"wafer_id", "batch_id"} \subseteq sql THEN {"test_results"} ELSE {}
  ELSE IF rule.category = "TEMPORAL"
    THEN IF rule.name = SequenceName THEN {"test_results"} ELSE {}
  ELSE {}

Recognised(rule) == RequiredTables(rule) # {}
Complete(rule) == rule.keys = {"rule_id", "name", "category", "severity", "threshold",
                               "layer", "check_sql", "impact"}

\* C8: a recognised check that finds a table it requires absent returns -1
\* with exactly one diagnostic entry, and the status is ERROR.
C8_AbsentTableIsError ==
  (/\ Done
   /\ Complete(probe.rule)
   /\ Recognised(probe.rule)
   /\ DOMAIN probe.data # {}
   /\ \E t \in RequiredTables(probe.rule) : t \notin DOMAIN probe.data)
    => /\ ~probe.out.raised
       /\ Verdict.violations = -1
       /\ Len(Verdict.details) = 1
       /\ Verdict.status = "ERROR"

\* C9: a rule of a known category with a descriptor that matches no
\* recognised target gets 0 violations, no examples and the status PASS.
C9_UnmatchedDescriptorIsNoOp ==
  (/\ Done
   /\ RequiredKeys \cup {"check_sql"} \subseteq probe.rule.keys
   /\ probe.rule.category \in Categories
   /\ ~Recognised(probe.rule))
    => /\ ~probe.out.raised
       /\ Verdict.violations = 0
       /\ Verdict.details = <<>>
       /\ Verdict.status = "PASS"

C9_Witness ==
  /\ Judged
  /\ probe.rule.category = "RANGE"
  /\ "check_sql" \in probe.rule.keys
  /\ probe.rule.check_sql = {"batch_id"}
  /\ "equipment_logs" \in DOMAIN probe.data
  /\ probe.data["equipment_logs"] = LogsDirty
  /\ Verdict.violations = 0
  /\ Verdict.status = "PASS"

\* C10: a run for one layer leaves the verdicts held for every other layer
\* as they were.
C10_OtherLayersUnchanged ==
  [][\A b \in Layers :
       b # last'.layer =>
         /\ (b \in DOMAIN results') <=> (b \in DOMAIN results)
         /\ Held(b)' = Held(b)]_vars

C10_Witness ==
  /\ Called
  /\ last.ret = "list"
  /\ last.layer = "staging"
  /\ last.verdicts # <<>>
  /\ "raw" \in DOMAIN results
  /\ results["raw"] # <<>>
  /\ results["raw"] # results["staging"]

\* the rows of the table `name` of the dataset of the call
RowsOf(name) == probe.data[name].rows
Checks(category, keyword) ==
  /\ Done
  /\ probe.rule.category = category
  /\ keyword \in probe.rule.check_sql
\* what _execute_pandas_check returned to check_rule
Collected == ExecutePandasCheck(probe.rule, probe.data)

\* C11: the pass_fail completeness count is the number of null rows plus
\* the number of rows with a non-null value other than PASS and FAIL, every
\* row counted once.
C11_PassFailCountsEachRowOnce ==
  (Checks("COMPLETENESS", "pass_fail") /\ Loaded(probe.data, "test_results")) =>
    LET rows == RowsOf("test_results") IN
    Verdict.violations =
      Cardinality({i \in 1..Len(rows) : rows[i].pass_fail \notin {"PASS", "FAIL"}})

\* the violating rows of the defect-density check
DensityViolators ==
  SelectSeq(RowsOf("test_results"), LAMBDA r : r.defect_density # <<>> /\ r.defect_density[1] < 0)

\* C12: the examples a check collects are at most 10 and pairwise distinct,
\* exactly 10 when 12 records with distinct ids violate, and the examples of
\* the verdict are the first min(5, n) collected ones in the same order.
C12_ExamplesDistinctAndTruncated ==
  Judged =>
    LET d == Collected.details IN
    /\ Len(d) <= 10
    /\ \A i, j \in 1..Len(d) : d[i] = d[j] => i = j
    /\ Verdict.details = [i \in 1..Min(5, Len(d)) |-> d[i]]
    /\ (/\ Checks("RANGE", "defect_density")
        /\ Cardinality({DensityViolators[i].wafer_id : i \in 1..Len(DensityViolators)}) >= 12)
         => Len(d) = 10

\* the rows of test_results whose batch_id is the batch_id of no row of
\* wafer_batches (a missing batch_id matches a missing batch_id)
Unmatched ==
  SelectSeq(RowsOf("test_results"), LAMBDA r :
    \A i \in 1..Len(RowsOf("wafer_batches")) : RowsOf("wafer_batches")[i].batch_id # r.batch_id)

\* C13: for a referential-integrity rule on wafer_tests and wafer_batches,
\* whenever the dataset holds test_results and wafer_batches the count is the
\* number of test_results rows without a matching wafer_batches row and the
\* examples are the distinct unmatched batch ids, at most 10.
C13_RunsAgainstTestResults ==
  (/\ Checks("REFERENTIAL_INTEGRITY", "wafer_tests")
   /\ "wafer_batches" \in probe.rule.check_sql
   /\ Loaded(probe.data, "test_results")
   /\ Loaded(probe.data, "wafer_batches"))
    => /\ Judged
       /\ Verdict.violations = Len(Unmatched)
       /\ Collected.details = Take(Unique(Col(Unmatched, "batch_id")), 10)

\* the rows of test_results ordered by (batch_id, process_step_id)
Ordered ==
  LET rows == RowsOf("test_results")
      n == Len(rows)
      pos == SortedPositions(n, [i \in 1..n |-> [j \in 1..n |-> KeyBefore(rows[i], rows[j])]])
  IN [k \in 1..n |-> rows[pos[k]]]

\* the rows that start earlier than the row before them in their batch
OutOfOrder ==
  SelectSeq([k \in 1..Len(Ordered) |->
               IF /\ k > 1
                  /\ Ordered[k].batch_id # NA
                  /\ Ordered[k - 1].batch_id = Ordered[k].batch_id
                  /\ Ordered[k].start_time # <<>>
                  /\ Ordered[k - 1].start_time # <<>>
                  /\ Ordered[k].start_time[1] < Ordered[k - 1].start_time[1]
               THEN <<Ordered[k].batch_id>> ELSE <<>>],
            LAMBDA x : x # <<>>)

\* C14: the process-step ordering check counts the rows of test_results,
\* ordered by (batch_id, process_step_id), that have a preceding row in the
\* same batch and start earlier than it; its examples are the distinct batch
\* ids of the counted rows.
C14_CountsOutOfOrderRows ==
  (/\ Checks("TEMPORAL", "start_time")
   /\ probe.rule.name = SequenceName
   /\ Loaded(probe.data, "test_results"))
    => /\ Judged
       /\ Verdict.violations = Len(OutOfOrder)
       /\ Collected.details = Take(Unique([k \in 1..Len(OutOfOrder) |-> OutOfOrder[k][1]]), 10)

\* C15: the temperature check counts exactly the rows of equipment_logs whose
\* temperature is strictly below -50 or strictly above 500: -50 and 500 are
\* not counted, the next values beyond them are.
C15_TemperatureBoundsAreExclusive ==
  (Checks("RANGE", "temperature") /\ Loaded(probe.data, "equipment_logs")) =>
    LET rows == RowsOf("equipment_logs") IN
    /\ Judged
    /\ Verdict.violations =
         Cardinality({i \in 1..Len(rows) :
                        /\ rows[i].temperature_c # <<>>
                        /\ \/ rows[i].temperature_c[1] < -50
                           \/ rows[i].temperature_c[1] > 500})

C15_Witness ==
  /\ Judged
  /\ Checks("RANGE", "temperature")
  /\ Loaded(probe.data, "equipment_logs")
  /\ Len(RowsOf("equipment_logs")) = 3
  /\ {RowsOf("equipment_logs")[i].temperature_c : i \in 1..3} = {<<-50>>, <<500>>, <<501>>}
  /\ Verdict.violations = 1
  /\ Verdict.status = "FAIL"

\* the number of rows of test_results of batch b, and of those with PASS
RowsOfBatch(b) ==
  Cardinality({i \in 1..Len(RowsOf("test_results")) : RowsOf("test_results")[i].batch_id = b})
PassedOfBatch(b) ==
  Cardinality({i \in 1..Len(RowsOf("test_results")) :
                 /\ RowsOf("test_results")[i].batch_id = b
                 /\ RowsOf("test_results")[i].pass_fail = "PASS"})

\* C16: the yield of every batch of test_results, PASS rows * 100 / rows,
\* lies in [0, 100], so the yield check returns 0 violations and no examples
\* and a yield rule with a threshold of 0 or more gets the status PASS.
C16_YieldNeverViolates ==
  (/\ Checks("RANGE", "yield_pct")
   /\ Loaded(probe.data, "test_results")
   /\ probe.rule.threshold >= 0)
    => /\ \A b \in {"B1", "B2"} :
            /\ 0 <= PassedOfBatch(b) * 100
            /\ PassedOfBatch(b) * 100 <= 100 * RowsOfBatch(b)
       /\ Judged
       /\ Collected.violations = 0
       /\ Collected.details = <<>>
       /\ Verdict.violations = 0
       /\ Verdict.details = <<>>
       /\ Verdict.status = "PASS"

C16_Witness ==
  /\ Judged
  /\ Checks("RANGE", "yield_pct")
  /\ Loaded(probe.data, "test_results")
  /\ RowsOfBatch("B1") = 2
  /\ PassedOfBatch("B1") = 2
  /\ RowsOfBatch("B2") = 1
  /\ PassedOfBatch("B2") = 0
  /\ Verdict.violations = 0
  /\ Verdict.status = "PASS"

====
